---- MODULE Spec2Model ----
(***************************************************************************)
(* The JSON:API data provider of test-admin.                               *)
(*                                                                         *)
(* The repository holds two revisions of the provider:                     *)
(*   "part_001" : src/unnamed/part_001 (query builder class, envelope and  *)
(*                resource validation, generic logging decorator);         *)
(*   "legacy"   : src/src/jsonApiDataProvider.ts (URLSearchParams, no      *)
(*                validation, per-operation logging).                      *)
(* Both are modelled; the variable revision says which one is deployed.    *)
(*                                                                         *)
(* JavaScript values are tagged records, JavaScript strings are strings,   *)
(* JavaScript objects are functions from property names to values.  A      *)
(* query string is modelled as the sequence of <<name, value>> parameters  *)
(* it carries, in emission order.                                          *)
(***************************************************************************)
EXTENDS Integers, Sequences, FiniteSets, TLC

VARIABLES
    revision,   \* which revision of the provider is deployed
    pc,         \* "idle" before the call, "waiting" once its requests are out
    call,       \* the operation called and its arguments
    requests,   \* the outbound requests of the call, in the order sent
    answers,    \* per request: the backend's reply to it, NoReply while it is in flight
    result,     \* the promise the operation returned: pending, Return(v) or Throw(m)
    logging,    \* whether the provider was built by createJsonApiDataProviderWithLogging
    log,        \* the records written to the console, in order
    outcome,    \* the promise the provider handed to its caller
    late        \* the requests the backend applied after the call had reported failure

vars == <<revision, pc, call, requests, answers, result, logging, log, outcome, late>>

(***************************************************************************)
(* Bounds of the model.                                                    *)
(***************************************************************************)
MaxPage == 2
MaxPerPage == 2
MaxIds == 3

(***************************************************************************)
(* JavaScript values.                                                      *)
(***************************************************************************)
Undefined == [undef |-> TRUE]
Null == [null |-> TRUE]
Str(s) == [str |-> s]
Num(n) == [num |-> n]
Bool(b) == [bool |-> b]
Arr(a) == [arr |-> a]
Obj(o) == [obj |-> o]
EmptyObj == Obj(<<>>)

IsUndefined(v) == "undef" \in DOMAIN v
IsNull(v) == "null" \in DOMAIN v
IsNullish(v) == IsUndefined(v) \/ IsNull(v)
IsStr(v) == "str" \in DOMAIN v
IsNum(v) == "num" \in DOMAIN v
IsBool(v) == "bool" \in DOMAIN v
IsArr(v) == "arr" \in DOMAIN v
IsObj(v) == "obj" \in DOMAIN v

\* ToBoolean: undefined, null, "", 0 and false are falsy; arrays and objects are truthy.
Truthy(v) ==
    IF IsNullish(v) THEN FALSE
    ELSE IF IsStr(v) THEN v.str # ""
    ELSE IF IsNum(v) THEN v.num # 0
    ELSE IF IsBool(v) THEN v.bool
    ELSE TRUE

\* a || b and a && b
Or(a, b) == IF Truthy(a) THEN a ELSE b
And(a, b) == IF Truthy(a) THEN b ELSE a

\* o[k] on a value that is not null or undefined (own data properties only).
Get(o, k) == IF IsObj(o) /\ k \in DOMAIN o.obj THEN o.obj[k] ELSE Undefined
\* o?.k
OptGet(o, k) == IF IsNullish(o) THEN Undefined ELSE Get(o, k)
\* a[i], zero-based, on a value that is not null or undefined
Index(a, i) == IF IsArr(a) /\ i + 1 \in DOMAIN a.arr THEN a.arr[i + 1] ELSE Undefined

\* { ...a, ...b } on property maps: b's entries override a's.
Merge(a, b) == [k \in DOMAIN a \cup DOMAIN b |-> IF k \in DOMAIN b THEN b[k] ELSE a[k]]
\* the properties ...v contributes to an object literal (the model spreads objects only)
Spread(v) == IF IsObj(v) THEN v.obj ELSE <<>>
\* an object literal with the single property k: v
Prop(k, v) == [x \in {k} |-> v]

Digit(d) == <<"0", "1", "2", "3", "4", "5", "6", "7", "8", "9">>[d + 1]
RECURSIVE NumToString(_)
NumToString(n) == IF n < 10 THEN Digit(n) ELSE NumToString(n \div 10) \o Digit(n % 10)

\* String(v); v.toString() where v is neither null nor undefined.
RECURSIVE toString(_), Join(_, _)
toString(v) ==
    IF IsStr(v) THEN v.str
    ELSE IF IsNum(v) THEN NumToString(v.num)
    ELSE IF IsBool(v) THEN (IF v.bool THEN "true" ELSE "false")
    ELSE IF IsArr(v) THEN Join(v.arr, ",")
    ELSE IF IsObj(v) THEN "[object Object]"
    ELSE IF IsNull(v) THEN "null"
    ELSE "undefined"
\* Array.prototype.join: null and undefined elements join as the empty string.
Join(a, sep) ==
    IF a = <<>> THEN ""
    ELSE LET h == IF IsNullish(Head(a)) THEN "" ELSE toString(Head(a))
         IN IF Len(a) = 1 THEN h ELSE h \o sep \o Join(Tail(a), sep)

\* Object.entries / Object.keys enumerate a property map in one fixed order.
RECURSIVE SeqOfSet(_)
SeqOfSet(S) ==
    IF S = {} THEN <<>>
    ELSE LET x == CHOOSE y \in S : TRUE IN <<x>> \o SeqOfSet(S \ {x})
ObjectEntries(o) == LET ks == SeqOfSet(DOMAIN o) IN [i \in DOMAIN ks |-> <<ks[i], o[ks[i]]>>]

\* The outcome of running a piece of code: it returns a value or throws an Error.
Return(v) == [kind |-> "return", value |-> v]
Throw(m) == [kind |-> "throw", message |-> m]
Pending == [kind |-> "pending"]
Returned(r) == r.kind = "return"
Threw(r) == r.kind = "throw"

(***************************************************************************)
(* What the backend can answer to one request.  fetch either rejects       *)
(* (network failure) or resolves to a response whose body parses as JSON   *)
(* or does not, with a success or a non-success status.                    *)
(***************************************************************************)
Absent == [absent |-> TRUE]

\* the object literal with the given properties, those marked Absent left out
ObjOf(o) == Obj([k \in {x \in DOMAIN o : o[x] # Absent} |-> o[k]])

ResourceHong ==
    Obj([type |-> Str("users"), id |-> Str("1"), attributes |-> Obj([name |-> Str("Hong")])])
ResourceKim ==
    Obj([type |-> Str("users"), id |-> Str("2"), attributes |-> Obj([name |-> Str("Kim")]),
         relationships |-> Obj([team |-> Str("t1")]), meta |-> Obj([rev |-> Num(4)])])
ResourceNumericId ==
    Obj([type |-> Str("users"), id |-> Num(3), attributes |-> Obj([name |-> Str("Lee")])])

\* a resource whose attributes mapping itself has an entry named id
ResourceShadowedId ==
    Obj([type |-> Str("users"), id |-> Str("4"),
         attributes |-> Obj([id |-> Str("9"), name |-> Str("Park")])])

DataShapes ==
    { Absent, Null, Arr(<<>>), Arr(<<ResourceHong>>), Arr(<<ResourceHong, ResourceKim>>),
      Arr(<<ResourceNumericId>>), ResourceHong, ResourceKim, ResourceNumericId,
      ResourceShadowedId }
MetaShapes ==
    { Absent, EmptyObj, Obj([total |-> Num(0)]), Obj([total |-> Num(37)]),
      Obj([count |-> Num(5)]), Obj([total |-> Num(0), count |-> Num(5)]),
      Obj([total |-> Num(37), count |-> Num(5)]) }
ErrorList == Arr(<<Obj([detail |-> Str("Not found")])>>)

\* every data shape without meta, with an error list, and the countable ones with each meta
Envelopes ==
    { ObjOf([data |-> d, meta |-> Absent, errors |-> Absent]) : d \in DataShapes }
    \cup { ObjOf([data |-> d, meta |-> m, errors |-> Absent]) :
              d \in {Absent, Arr(<<>>), Arr(<<ResourceHong, ResourceKim>>), ResourceHong},
              m \in MetaShapes }
    \cup { ObjOf([data |-> d, meta |-> Absent, errors |-> ErrorList]) : d \in DataShapes }
    \cup { Null }

ErrorBodies ==
    { Obj([errors |-> ErrorList]),
      Obj([errors |-> Arr(<<Obj([title |-> Str("Bad request")])>>)]),
      Obj([errors |-> Arr(<<Obj([title |-> Str("Bad request"), detail |-> Str("Name taken")])>>)]),
      Obj([errors |-> Arr(<<Obj([code |-> Str("E42")])>>)]),
      Obj([errors |-> Arr(<<>>)]),
      EmptyObj,
      Null }

Reply(fetch, parses, ok, status, statusText, body) ==
    [fetch |-> fetch, parses |-> parses, ok |-> ok, status |-> status,
     statusText |-> statusText, body |-> body]

NetworkFailure == Reply("rejects", FALSE, FALSE, "0", "", Undefined)
NotJson == Reply("resolves", FALSE, TRUE, "200", "OK", Undefined)
Success(body) == Reply("resolves", TRUE, TRUE, "200", "OK", body)
Failure(body) == Reply("resolves", TRUE, FALSE, "404", "Not Found", body)
\* a non-success status whose body is not JSON (a gateway's HTML page)
BadGateway == Reply("resolves", FALSE, FALSE, "502", "Bad Gateway", Undefined)

Replies ==
    {NetworkFailure, NotJson, BadGateway}
    \cup { Success(b) : b \in Envelopes }
    \cup { Failure(b) : b \in ErrorBodies }

(***************************************************************************)
(* part_001: utilities, HTTP client, transformations, query builder.       *)
(***************************************************************************)
HttpStatusLine(reply) == "HTTP " \o reply.status \o ": " \o reply.statusText

\* part_001 createHttpClient: what `await httpClient(url, options)` gives for a reply
httpClient(reply) ==
    IF reply.fetch = "rejects" THEN Throw("Failed to fetch")
    ELSE IF ~reply.parses THEN Throw("Unexpected token in JSON")
    ELSE IF ~reply.ok THEN
        IF IsNullish(reply.body) THEN Throw("Cannot read properties of null")
        ELSE LET errors == Get(reply.body, "errors") IN
             IF Truthy(errors) /\ IsArr(errors)
             THEN LET error == Index(errors, 0) IN
                  Throw(toString(Or(Or(OptGet(error, "detail"), OptGet(error, "title")),
                                    Str(HttpStatusLine(reply)))))
             ELSE Throw(HttpStatusLine(reply))
    ELSE Return(reply.body)

ensureArray(data) == IF IsArr(data) THEN data.arr ELSE <<data>>

validateJsonApiResource(resource) ==
    IF IsNullish(resource) THEN Throw("Cannot read properties of null")
    ELSE IF ~IsStr(Get(resource, "type")) THEN Throw("Resource type must be a string")
    ELSE IF ~IsStr(Get(resource, "id")) THEN Throw("Resource id must be a string")
    ELSE Return(Undefined)

transformFromJsonApi(resource) ==
    LET valid == validateJsonApiResource(resource)
        relationships == Get(resource, "relationships")
        meta == Get(resource, "meta")
    IN IF Threw(valid) THEN valid
       ELSE Return(Obj(
            Merge(Merge(Merge(Prop("id", Get(resource, "id")),
                              Spread(Get(resource, "attributes"))),
                        Spread(And(relationships, Obj(Prop("relationships", relationships))))),
                  Spread(And(meta, Obj(Prop("meta", meta)))))))

\* part_001 assigns this.params[name] = value: one entry per name, the last value wins
SetParam(params, name, value) ==
    IF \E i \in DOMAIN params : params[i][1] = name
    THEN [i \in DOMAIN params |-> IF params[i][1] = name THEN <<name, value>> ELSE params[i]]
    ELSE Append(params, <<name, value>>)

\* buildQueryString keeps the entries whose value is not the empty string (the values
\* are strings, never undefined or null); the percent-encoding of the values and the
\* joining with & are not modelled: parameters are compared as name/value pairs.
buildQueryString(params) == SelectSeq(params, LAMBDA p : p[2] # "")

\* faulty variant of paginate: page and perPage are swapped
paginateSwapped(params, page, perPage) ==
    SetParam(SetParam(params, "page[number]", toString(perPage)), "page[size]", toString(page))

paginate(params, page, perPage) ==
    SetParam(SetParam(params, "page[number]", toString(page)), "page[size]", toString(perPage))

\* faulty variant of sort: the order test is inverted
sortInverted(params, field, order) ==
    SetParam(params, "sort", IF order = Str("DESC") THEN toString(field) ELSE "-" \o toString(field))

sort(params, field, order) ==
    SetParam(params, "sort", IF order = Str("ASC") THEN toString(field) ELSE "-" \o toString(field))

RECURSIVE filterEntries(_, _)
filterEntries(params, entries) ==
    IF entries = <<>> THEN params
    ELSE LET key == Head(entries)[1]
             value == Head(entries)[2]
         IN filterEntries(
                IF value # Undefined /\ value # Null /\ value # Str("")
                THEN SetParam(params, "filter[" \o key \o "]", toString(value))
                ELSE params,
                Tail(entries))
filter(params, filters) == filterEntries(params, ObjectEntries(filters.obj))

filterBy(params, key, value) ==
    SetParam(params, "filter[" \o key \o "]",
             IF IsArr(value) THEN Join(value.arr, ",") ELSE toString(value))

build(params) == buildQueryString(params)

\* faulty variant of transformToJsonApi: meta is taken out of the attributes but not
\* hoisted to the resource
transformToJsonApiWithoutMeta(type, data, id) ==
    LET relationships == Get(data, "relationships")
    IN IF ~IsStr(type) THEN Throw("Resource type must be a string")
       ELSE IF Truthy(id) /\ ~IsStr(id) THEN Throw("Resource id must be a string")
       ELSE Return(Obj(Prop("data", Obj(
            Merge(Merge(Merge(Prop("type", type),
                              Spread(And(id, Obj(Prop("id", id))))),
                        Prop("attributes",
                             Obj([k \in DOMAIN data.obj \ {"id", "relationships", "meta"}
                                     |-> data.obj[k]]))),
                  Spread(And(relationships, Obj(Prop("relationships", relationships)))))))))

transformToJsonApi(type, data, id) ==
    LET relationships == Get(data, "relationships")
        meta == Get(data, "meta")
    IN IF ~IsStr(type) THEN Throw("Resource type must be a string")
       ELSE IF Truthy(id) /\ ~IsStr(id) THEN Throw("Resource id must be a string")
       ELSE Return(Obj(Prop("data", Obj(
            Merge(Merge(Merge(Merge(Prop("type", type),
                                    Spread(And(id, Obj(Prop("id", id))))),
                              Prop("attributes",
                                   Obj([k \in DOMAIN data.obj \ {"id", "relationships", "meta"}
                                           |-> data.obj[k]]))),
                        Spread(And(relationships, Obj(Prop("relationships", relationships))))),
                  Spread(And(meta, Obj(Prop("meta", meta)))))))))

\* JSON.stringify, as the JSON value its text denotes: properties whose value is
\* undefined are left out, undefined array elements become null.
RECURSIVE JSONstringify(_)
JSONstringify(v) ==
    IF IsObj(v)
    THEN Obj([k \in {x \in DOMAIN v.obj : ~IsUndefined(v.obj[x])} |-> JSONstringify(v.obj[k])])
    ELSE IF IsArr(v)
    THEN Arr([i \in DOMAIN v.arr |->
                 IF IsUndefined(v.arr[i]) THEN Null ELSE JSONstringify(v.arr[i])])
    ELSE v

(***************************************************************************)
(* part_001 createJsonApiDataProvider: response handling.                  *)
(***************************************************************************)
validateJsonApiDocument(response) ==
    IF IsNullish(response) THEN Throw("Cannot read properties of null")
    ELSE IF ~Truthy(Get(response, "data")) /\ ~Truthy(Get(response, "errors"))
            /\ ~Truthy(Get(response, "meta"))
    THEN Throw("JSON API document must contain at least one of: data, errors, meta")
    ELSE IF Truthy(Get(response, "data")) /\ Truthy(Get(response, "errors"))
    THEN Throw("JSON API document must not contain both data and errors")
    ELSE Return(Undefined)

\* the first exception array.forEach(f) / array.map(f) lets escape, if any, given the
\* outcome of f on each element
FirstThrow(outcomes) ==
    LET bad == {i \in DOMAIN outcomes : Threw(outcomes[i])}
    IN IF bad = {} THEN Return(Undefined)
       ELSE outcomes[CHOOSE i \in bad : \A j \in bad : i <= j]

EmptyList == Obj([data |-> Arr(<<>>), total |-> Num(0)])
EmptyMany == Obj([data |-> Arr(<<>>)])

handleResponse(response) ==
    LET valid == validateJsonApiDocument(response)
        data == Get(response, "data")
        meta == Get(response, "meta")
        dataArray == ensureArray(data)
        each == FirstThrow([i \in DOMAIN dataArray |-> validateJsonApiResource(dataArray[i])])
    IN IF Threw(valid) THEN valid
       ELSE IF ~Truthy(data) THEN Return(EmptyList)
       ELSE IF Threw(each) THEN each
       ELSE Return(Obj([data |-> Arr([i \in DOMAIN dataArray |->
                                         transformFromJsonApi(dataArray[i]).value]),
                        total |-> Or(Or(OptGet(meta, "total"), OptGet(meta, "count")),
                                     Num(Len(dataArray)))]))

\* faulty variant of handleSingleResponse: an array is unwrapped to its first resource
handleSingleResponseUnwrapping(response) ==
    LET valid == validateJsonApiDocument(response)
        data == Get(response, "data")
        first == IF IsArr(data) THEN Index(data, 0) ELSE data
    IN IF Threw(valid) THEN valid
       ELSE IF ~Truthy(data) THEN Throw("Expected resource data, got null")
       ELSE IF Threw(validateJsonApiResource(first)) THEN validateJsonApiResource(first)
       ELSE Return(Obj(Prop("data", transformFromJsonApi(first).value)))

handleSingleResponse(response) ==
    LET valid == validateJsonApiDocument(response)
        data == Get(response, "data")
    IN IF Threw(valid) THEN valid
       ELSE IF ~Truthy(data) THEN Throw("Expected resource data, got null")
       ELSE IF IsArr(data) THEN Throw("Expected single resource, got array")
       ELSE IF Threw(validateJsonApiResource(data)) THEN validateJsonApiResource(data)
       ELSE Return(Obj(Prop("data", transformFromJsonApi(data).value)))

\* const { a = d } = ...: the default applies when the property is undefined
Default(v, d) == IF IsUndefined(v) THEN d ELSE v

(***************************************************************************)
(* part_001: the query each list-shaped read builds, and what each         *)
(* operation makes of the reply to its request.                            *)
(***************************************************************************)
getListQuery(params) ==
    LET pagination == Or(params.pagination, EmptyObj)
        page == Default(Get(pagination, "page"), Num(1))
        perPage == Default(Get(pagination, "perPage"), Num(10))
        sorting == Or(params.sort, EmptyObj)
        field == Default(Get(sorting, "field"), Str("id"))
        order == Default(Get(sorting, "order"), Str("ASC"))
    IN build(filter(sort(paginate(<<>>, page, perPage), field, order),
                    Or(params.filter, EmptyObj)))

\* `return handleResponse(response)` hands the promise of the async handleResponse
\* out of the try block without awaiting it: only httpClient's failure is caught.
getListSettle(reply) ==
    LET response == httpClient(reply)
    IN IF Threw(response) THEN Return(EmptyList) ELSE handleResponse(response.value)

getOneSettle(reply) ==
    LET response == httpClient(reply)
    IN IF Threw(response) THEN response ELSE handleSingleResponse(response.value)

getManyQuery(params) ==
    build(filterBy(<<>>, "id", Arr([i \in DOMAIN params.ids |-> Str(toString(params.ids[i]))])))

getManySettle(reply) ==
    LET response == httpClient(reply)
        data == Get(response.value, "data")
        dataArray == ensureArray(data)
    IN IF Threw(response) \/ IsNullish(response.value) THEN Return(EmptyMany)
       ELSE IF ~Truthy(data) THEN Return(EmptyMany)
       ELSE IF Threw(FirstThrow([i \in DOMAIN dataArray |-> validateJsonApiResource(dataArray[i])])) THEN Return(EmptyMany)
       ELSE Return(Obj([data |-> Arr([i \in DOMAIN dataArray |->
                                         transformFromJsonApi(dataArray[i]).value])]))

getManyReferenceQuery(params) ==
    LET pagination == Or(params.pagination, EmptyObj)
        page == Default(Get(pagination, "page"), Num(1))
        perPage == Default(Get(pagination, "perPage"), Num(10))
        sorting == Or(params.sort, EmptyObj)
        field == Default(Get(sorting, "field"), Str("id"))
        order == Default(Get(sorting, "order"), Str("ASC"))
    IN build(filter(filterBy(sort(paginate(<<>>, page, perPage), field, order),
                             params.target, Str(toString(params.id))),
                    Or(params.filter, EmptyObj)))

getManyReferenceSettle(reply) ==
    LET response == httpClient(reply)
    IN IF Threw(response) THEN Return(EmptyList) ELSE handleResponse(response.value)

createSettle(reply) ==
    LET response == httpClient(reply)
    IN IF Threw(response) THEN response ELSE handleSingleResponse(response.value)

updateSettle(reply) ==
    LET response == httpClient(reply)
    IN IF Threw(response) THEN response ELSE handleSingleResponse(response.value)

deleteSettle(params, reply) ==
    LET response == httpClient(reply)
    IN IF Threw(response) THEN response
       ELSE Return(Obj(Prop("data", Or(params.previousData, Obj(Prop("id", params.id))))))

(***************************************************************************)
(* legacy: src/src/jsonApiDataProvider.ts.                                 *)
(***************************************************************************)
jsonApiHttpClient(reply) ==
    IF reply.fetch = "rejects" THEN Throw("Failed to fetch")
    ELSE IF ~reply.parses THEN Throw("Unexpected token in JSON")
    ELSE IF ~reply.ok THEN
        IF IsNullish(reply.body) THEN Throw("Cannot read properties of null")
        ELSE LET errors == Get(reply.body, "errors")
                 error == IF IsNullish(errors) THEN Undefined ELSE Index(errors, 0)
             IN Throw(toString(Or(Or(OptGet(error, "detail"), OptGet(error, "title")),
                                  Str(HttpStatusLine(reply)))))
    ELSE Return(reply.body)

transformJsonApiResource(resource) ==
    LET relationships == Get(resource, "relationships")
        meta == Get(resource, "meta")
    IN IF IsNullish(resource) THEN Throw("Cannot read properties of undefined")
       ELSE Return(Obj(
            Merge(Merge(Merge(Prop("id", Get(resource, "id")),
                              Spread(Get(resource, "attributes"))),
                        Spread(And(relationships, Obj(Prop("relationships", relationships))))),
                  Spread(And(meta, Obj(Prop("meta", meta)))))))

transformToJsonApiResource(type, data, id) ==
    LET relationships == Get(data, "relationships")
        meta == Get(data, "meta")
    IN Return(Obj(Prop("data", Obj(
            Merge(Merge(Merge(Merge(Prop("type", type),
                                    Spread(And(id, Obj(Prop("id", id))))),
                              Prop("attributes",
                                   Obj([k \in {x \in DOMAIN data.obj :
                                                  x # "id" /\ x # "relationships" /\ x # "meta"}
                                           |-> data.obj[k]]))),
                        Spread(And(relationships, Obj(Prop("relationships", relationships))))),
                  Spread(And(meta, Obj(Prop("meta", meta)))))))))

\* URLSearchParams.append over the entries of a filter mapping
RECURSIVE legacy_appendFilters(_, _)
legacy_appendFilters(query, entries) ==
    IF entries = <<>> THEN query
    ELSE LET key == Head(entries)[1]
             value == Head(entries)[2]
         IN legacy_appendFilters(
                IF value # Undefined /\ value # Null /\ value # Str("")
                THEN Append(query, <<"filter[" \o key \o "]", toString(value)>>)
                ELSE query,
                Tail(entries))

legacy_getListQuery(params) ==
    LET pagination == Or(params.pagination, EmptyObj)
        page == Default(Get(pagination, "page"), Num(1))
        perPage == Default(Get(pagination, "perPage"), Num(10))
        sorting == Or(params.sort, EmptyObj)
        field == Default(Get(sorting, "field"), Str("id"))
        order == Default(Get(sorting, "order"), Str("ASC"))
        sortField == IF order = Str("ASC") THEN toString(field) ELSE "-" \o toString(field)
    IN legacy_appendFilters(
            <<<<"page[number]", toString(page)>>, <<"page[size]", toString(perPage)>>,
              <<"sort", sortField>>>>,
            ObjectEntries(Or(params.filter, EmptyObj).obj))

\* the body of the try block of the legacy list-shaped reads; any exception is caught
legacy_listBody(reply, withTotal) ==
    LET json == jsonApiHttpClient(reply)
        data == IF IsArr(Get(json.value, "data")) THEN Get(json.value, "data").arr
                ELSE <<Get(json.value, "data")>>
        meta == Get(json.value, "meta")
        records == Arr([i \in DOMAIN data |-> transformJsonApiResource(data[i]).value])
    IN IF Threw(json) THEN json
       ELSE IF IsNullish(json.value) THEN Throw("Cannot read properties of null")
       ELSE IF Threw(FirstThrow([i \in DOMAIN data |-> transformJsonApiResource(data[i])]))
       THEN FirstThrow([i \in DOMAIN data |-> transformJsonApiResource(data[i])])
       ELSE IF withTotal
       THEN Return(Obj([data |-> records,
                        total |-> Or(Or(OptGet(meta, "total"), OptGet(meta, "count")),
                                     Num(Len(data)))]))
       ELSE Return(Obj([data |-> records]))

legacy_getListSettle(reply) ==
    IF Threw(legacy_listBody(reply, TRUE)) THEN Return(EmptyList)
    ELSE legacy_listBody(reply, TRUE)

\* the try block of legacy getOne / create / update; the catch logs and rethrows
legacy_singleBody(reply) ==
    LET json == jsonApiHttpClient(reply)
        data == Get(json.value, "data")
    IN IF Threw(json) THEN json
       ELSE IF IsNullish(json.value) THEN Throw("Cannot read properties of null")
       ELSE IF IsArr(data) THEN Throw("Expected single resource, got array")
       ELSE IF Threw(transformJsonApiResource(data)) THEN transformJsonApiResource(data)
       ELSE Return(Obj(Prop("data", transformJsonApiResource(data).value)))

legacy_getOneSettle(reply) == legacy_singleBody(reply)

legacy_getManyQuery(params) ==
    <<<<"filter[id]", Join(params.ids, ",")>>>>

legacy_getManySettle(reply) ==
    IF Threw(legacy_listBody(reply, FALSE)) THEN Return(EmptyMany)
    ELSE legacy_listBody(reply, FALSE)

legacy_getManyReferenceQuery(params) ==
    LET pagination == Or(params.pagination, EmptyObj)
        page == Default(Get(pagination, "page"), Num(1))
        perPage == Default(Get(pagination, "perPage"), Num(10))
        sorting == Or(params.sort, EmptyObj)
        field == Default(Get(sorting, "field"), Str("id"))
        order == Default(Get(sorting, "order"), Str("ASC"))
        sortField == IF order = Str("ASC") THEN toString(field) ELSE "-" \o toString(field)
    IN legacy_appendFilters(
            <<<<"page[number]", toString(page)>>, <<"page[size]", toString(perPage)>>,
              <<"sort", sortField>>, <<"filter[" \o params.target \o "]", toString(params.id)>>>>,
            ObjectEntries(Or(params.filter, EmptyObj).obj))

legacy_getManyReferenceSettle(reply) ==
    IF Threw(legacy_listBody(reply, TRUE)) THEN Return(EmptyList)
    ELSE legacy_listBody(reply, TRUE)

legacy_createSettle(reply) == legacy_singleBody(reply)

legacy_updateSettle(reply) == legacy_singleBody(reply)

legacy_deleteSettle(params, reply) ==
    LET response == jsonApiHttpClient(reply)
    IN IF Threw(response) THEN response
       ELSE Return(Obj(Prop("data", Or(params.previousData, Obj(Prop("id", params.id))))))

(***************************************************************************)
(* The arguments the calling framework passes.                             *)
(***************************************************************************)
Resource == "users"

\* identifiers are strings or numbers
Id(i) == IF i % 2 = 0 THEN Str(NumToString(i)) ELSE Num(i)
IdPool == {Id(i) : i \in 1..MaxIds}
IdLists ==
    UNION { {ids \in [1..n -> IdPool] : \A i, j \in 1..n : ids[i] = ids[j] => i = j}
            : n \in 0..MaxIds }

Paginations ==
    {Undefined} \cup
    { Obj([page |-> Num(p), perPage |-> Num(s)]) : p \in 1..MaxPage, s \in 1..MaxPerPage }
\* sort fields are names of record fields; field and order each have a default
SortFields == {"name"}
Sorts ==
    {Undefined} \cup
    { ObjOf([field |-> f, order |-> o]) :
        f \in {Absent} \cup {Str(n) : n \in SortFields},
        o \in {Absent, Str("ASC"), Str("DESC")} }
StatusValues ==
    { Absent, Undefined, Null, Str(""), Str("active"), Num(0), Bool(FALSE), Arr(<<>>) }
Filters ==
    {Undefined} \cup
    { ObjOf([status |-> s, post_id |-> p]) : s \in StatusValues, p \in {Absent, Str("9")} }
Targets == {"post_id"}
ReferenceIds == {Num(5)}

GetListParams ==
    { [pagination |-> p, sort |-> s, filter |-> f] : p \in Paginations, s \in Sorts, f \in Filters }
GetManyReferenceParams ==
    { [target |-> t, id |-> i, pagination |-> p, sort |-> s, filter |-> f] :
        t \in Targets, i \in ReferenceIds, p \in Paginations, s \in Sorts, f \in Filters }

\* generic records: an id, fields, optionally relationships and meta
Records ==
    { ObjOf([id |-> i, name |-> Str("Hong"), type |-> t, relationships |-> r, meta |-> m]) :
        i \in {Absent, Str("1"), Num(7)},
        t \in {Absent, Str("admin")},
        r \in {Absent, EmptyObj, Obj([team |-> Str("t1")])},
        m \in {Absent, Null, Obj([rev |-> Num(4)])} }
CreateParams == { [data |-> d] : d \in Records }
\* the framework passes the record's own id as params.id
UpdateParams ==
    { [id |-> Default(Get(d, "id"), Str("1")), data |-> d] : d \in Records }
UpdateManyParams == { [ids |-> ids, data |-> Obj([name |-> Str("Hong")])] : ids \in IdLists }
DeleteParams ==
    { [id |-> i, previousData |-> p] :
        i \in IdPool, p \in {Undefined, Obj([id |-> Num(1), name |-> Str("Hong")])} }

(***************************************************************************)
(* Requests and the promise of each.                                       *)
(***************************************************************************)
Request(method, path, query, body) ==
    [method |-> method, path |-> path, query |-> query, body |-> body]
NoReply == Reply("pending", FALSE, FALSE, "", "", Undefined)

(***************************************************************************)
(* The logging decorator.                                                  *)
(***************************************************************************)
\* the operations the legacy logging provider overrides; the others are the
\* base provider's own, taken over by the spread
LegacyLogged == {"getList", "getOne", "create", "update", "delete"}

\* the call goes through a logging wrapper
Logged(op) == logging /\ (revision = "part_001" \/ op \in LegacyLogged)

\* the text that starts the records of a call
LogLabel(op, params) ==
    IF revision = "part_001" THEN "[JSON API] " \o op
    ELSE IF op \in {"getOne", "update", "delete"}
    THEN "[JSON API] " \o op \o " " \o Resource \o "/" \o toString(params.id)
    ELSE "[JSON API] " \o op \o " " \o Resource

\* console.log before the base operation is invoked
LogArgs(op, params) ==
    [kind |-> "args", method |-> op,
     label |-> IF revision = "legacy" /\ op \in {"getOne", "delete"}
               THEN LogLabel(op, params) ELSE LogLabel(op, params) \o ":",
     payload |-> IF revision = "part_001" THEN <<Str(Resource), params>>
                 ELSE IF op = "getList" THEN <<params>>
                 ELSE IF op \in {"create", "update"} THEN <<params.data>>
                 ELSE <<>>]

\* faulty variant of withLogging: a failure of the base operation is logged and
\* swallowed, the caller gets undefined
withLoggingSwallowing(op, params, settled) ==
    IF Returned(settled)
    THEN [log |-> <<[kind |-> "result", method |-> op,
                     label |-> LogLabel(op, params) \o " result:",
                     payload |-> <<settled.value>>]>>,
          outcome |-> settled]
    ELSE [log |-> <<[kind |-> "error", method |-> op,
                     label |-> LogLabel(op, params) \o " error:",
                     payload |-> <<Str(settled.message)>>]>>,
          outcome |-> Return(Undefined)]

\* the wrapper after `await method(...args)`: a fulfilled base promise is logged
\* and returned, a rejected one is rethrown by the await before anything is logged
withLogging(op, params, settled) ==
    IF Returned(settled)
    THEN [log |-> <<[kind |-> "result", method |-> op,
                     label |-> LogLabel(op, params) \o " result:",
                     payload |-> <<settled.value>>]>>,
          outcome |-> settled]
    ELSE [log |-> <<>>, outcome |-> settled]

\* the call has logged its arguments when it goes through a wrapper, built and
\* sent its requests, and now awaits them
Dispatch(op, params, reqs, now) ==
    /\ pc' = IF reqs = <<>> THEN "done" ELSE "waiting"
    /\ call' = [op |-> op, resource |-> Resource, params |-> params]
    /\ log' = IF Logged(op) THEN <<LogArgs(op, params)>> ELSE <<>>
    /\ requests' = reqs
    /\ answers' = [i \in DOMAIN reqs |-> NoReply]
    /\ result' = now
    /\ outcome' = IF Logged(op) THEN Pending ELSE now
    /\ late' = {}
    /\ UNCHANGED <<revision, logging>>

getList(params) ==
    /\ pc = "idle"
    /\ Dispatch("getList", params,
                <<Request("GET", "/" \o Resource,
                          IF revision = "part_001" THEN getListQuery(params)
                          ELSE legacy_getListQuery(params),
                          Undefined)>>,
                Pending)

getOne(params) ==
    /\ pc = "idle"
    /\ Dispatch("getOne", params,
                <<Request("GET", "/" \o Resource \o "/" \o toString(params.id), <<>>, Undefined)>>,
                Pending)

getMany(params) ==
    /\ pc = "idle"
    /\ Dispatch("getMany", params,
                <<Request("GET", "/" \o Resource,
                          IF revision = "part_001" THEN getManyQuery(params)
                          ELSE legacy_getManyQuery(params),
                          Undefined)>>,
                Pending)

getManyReference(params) ==
    /\ pc = "idle"
    /\ Dispatch("getManyReference", params,
                <<Request("GET", "/" \o Resource,
                          IF revision = "part_001" THEN getManyReferenceQuery(params)
                          ELSE legacy_getManyReferenceQuery(params),
                          Undefined)>>,
                Pending)

\* the wire resource a write sends for a field mapping and an optional id
WireBody(type, data, id) ==
    IF revision = "part_001" THEN transformToJsonApi(type, data, id)
    ELSE transformToJsonApiResource(type, data, id)

create(params) ==
    LET body == WireBody(Str(Resource), params.data, Undefined)
    IN /\ pc = "idle"
       /\ IF Threw(body) THEN Dispatch("create", params, <<>>, body)
          ELSE Dispatch("create", params,
                        <<Request("POST", "/" \o Resource, <<>>, JSONstringify(body.value))>>,
                        Pending)

update(params) ==
    LET body == WireBody(Str(Resource), params.data, Str(toString(params.id)))
    IN /\ pc = "idle"
       /\ IF Threw(body) THEN Dispatch("update", params, <<>>, body)
          ELSE Dispatch("update", params,
                        <<Request("PATCH", "/" \o Resource \o "/" \o toString(params.id), <<>>,
                                  JSONstringify(body.value))>>,
                        Pending)

\* params.ids.map(...) sends one PATCH per id, in order, before anything is awaited;
\* an exception thrown while building a body ends the map there.
updateMany(params) ==
    LET ids == params.ids
        body(i) == WireBody(Str(Resource), params.data, Str(toString(ids[i])))
        bad == {i \in DOMAIN ids : Threw(body(i))}
        sent == IF bad = {} THEN Len(ids) ELSE (CHOOSE i \in bad : \A j \in bad : i <= j) - 1
        reqs == [i \in 1..sent |->
                    Request("PATCH", "/" \o Resource \o "/" \o toString(ids[i]), <<>>,
                            JSONstringify(body(i).value))]
    IN /\ pc = "idle"
       /\ Dispatch("updateMany", params, reqs,
                   IF bad # {} THEN body(sent + 1)
                   ELSE IF ids = <<>> THEN Return(Obj(Prop("data", Arr(ids))))
                   ELSE Pending)

delete(params) ==
    /\ pc = "idle"
    /\ Dispatch("delete", params,
                <<Request("DELETE", "/" \o Resource \o "/" \o toString(params.id), <<>>, Undefined)>>,
                Pending)

deleteMany(params) ==
    LET ids == params.ids
        reqs == [i \in DOMAIN ids |->
                    Request("DELETE", "/" \o Resource \o "/" \o toString(ids[i]), <<>>, Undefined)]
    IN /\ pc = "idle"
       /\ Dispatch("deleteMany", params, reqs,
                   IF ids = <<>> THEN Return(Obj(Prop("data", Arr(ids)))) ELSE Pending)

(***************************************************************************)
(* The backend answers a request and the awaiting code resumes.            *)
(***************************************************************************)
FanOut == {"updateMany", "deleteMany"}
FanOutReplies == {NetworkFailure, Failure(Obj([errors |-> ErrorList])), Success(Obj([data |-> ResourceHong]))}

\* a backend that answers a write with the resource it was sent
Echo(request) == Success(Obj(Prop("data", Get(request.body, "data"))))

RepliesTo(i) ==
    IF call.op \in FanOut THEN FanOutReplies
    ELSE IF call.op \in {"create", "update"} THEN Replies \cup {Echo(requests[i])}
    ELSE Replies

\* what the provider's HTTP client makes of a reply
Client(reply) == IF revision = "part_001" THEN httpClient(reply) ELSE jsonApiHttpClient(reply)

\* faulty variant of PromiseAll: waits for every promise and reports the ids whose
\* request succeeded (Promise.allSettled with a partial result)
PromiseAllPartial(i, reply) ==
    LET after == [answers EXCEPT ![i] = reply]
        ok == {j \in DOMAIN after : after[j] # NoReply /\ ~Threw(Client(after[j]))}
    IN IF \E j \in DOMAIN after : after[j] = NoReply THEN Pending
       ELSE Return(Obj(Prop("data",
                Arr(SelectSeq(call.params.ids,
                              LAMBDA id : \E j \in ok : call.params.ids[j] = id)))))

\* await Promise.all(promises); return { data: params.ids }: rejected with the
\* first rejection, fulfilled once every promise is fulfilled
PromiseAll(i, reply) ==
    IF result # Pending THEN result
    ELSE IF Threw(Client(reply)) THEN Client(reply)
    ELSE IF \A j \in DOMAIN answers : j # i => answers[j] # NoReply
    THEN Return(Obj(Prop("data", Arr(call.params.ids))))
    ELSE Pending

Settle(reply) ==
    IF revision = "part_001"
    THEN CASE call.op = "getList" -> getListSettle(reply)
           [] call.op = "getOne" -> getOneSettle(reply)
           [] call.op = "getMany" -> getManySettle(reply)
           [] call.op = "getManyReference" -> getManyReferenceSettle(reply)
           [] call.op = "create" -> createSettle(reply)
           [] call.op = "update" -> updateSettle(reply)
           [] call.op = "delete" -> deleteSettle(call.params, reply)
    ELSE CASE call.op = "getList" -> legacy_getListSettle(reply)
           [] call.op = "getOne" -> legacy_getOneSettle(reply)
           [] call.op = "getMany" -> legacy_getManySettle(reply)
           [] call.op = "getManyReference" -> legacy_getManyReferenceSettle(reply)
           [] call.op = "create" -> legacy_createSettle(reply)
           [] call.op = "update" -> legacy_updateSettle(reply)
           [] call.op = "delete" -> legacy_deleteSettle(call.params, reply)

\* faulty variant of Respond: the first failure aborts the requests still in flight
RespondCancelling(i, reply) ==
    /\ pc = "waiting"
    /\ answers[i] = NoReply
    /\ answers' = [answers EXCEPT ![i] = reply]
    /\ result' = IF call.op \in FanOut THEN PromiseAll(i, reply) ELSE Settle(reply)
    /\ pc' = IF Threw(Client(reply)) \/ \A j \in DOMAIN answers : j # i => answers[j] # NoReply
             THEN "done" ELSE "waiting"
    /\ outcome' = IF Logged(call.op) THEN outcome ELSE result'
    /\ late' = IF Threw(result) /\ ~Threw(Client(reply)) THEN late \cup {i} ELSE late
    /\ UNCHANGED <<revision, call, requests, logging, log>>

\* faulty variant of Respond: a request that failed is sent once more
RespondRetrying(i, reply) ==
    /\ pc = "waiting"
    /\ answers[i] = NoReply
    /\ IF Threw(Client(reply)) /\ \A j \in DOMAIN requests : requests[j] = requests[i] => j = i
       THEN /\ requests' = Append(requests, requests[i])
            /\ answers' = Append([answers EXCEPT ![i] = reply], NoReply)
            /\ UNCHANGED <<result, pc, outcome>>
       ELSE /\ answers' = [answers EXCEPT ![i] = reply]
            /\ result' = IF call.op \in FanOut THEN PromiseAll(i, reply) ELSE Settle(reply)
            /\ pc' = IF \A j \in DOMAIN answers : j # i => answers[j] # NoReply
                     THEN "done" ELSE "waiting"
            /\ outcome' = IF Logged(call.op) THEN outcome ELSE result'
            /\ UNCHANGED requests
    /\ UNCHANGED <<revision, call, logging, log, late>>

Respond(i, reply) ==
    /\ pc = "waiting"
    /\ answers[i] = NoReply
    /\ answers' = [answers EXCEPT ![i] = reply]
    /\ result' = IF call.op \in FanOut THEN PromiseAll(i, reply) ELSE Settle(reply)
    /\ pc' = IF \A j \in DOMAIN answers : j # i => answers[j] # NoReply THEN "done" ELSE "waiting"
    /\ outcome' = IF Logged(call.op) THEN outcome ELSE result'
    /\ late' = IF Threw(result) /\ ~Threw(Client(reply)) THEN late \cup {i} ELSE late
    /\ UNCHANGED <<revision, call, requests, logging, log>>

\* the logging wrapper resumes once the base operation's promise has settled
LogResult ==
    /\ pc # "idle"
    /\ Logged(call.op)
    /\ result # Pending
    /\ outcome = Pending
    /\ log' = log \o withLogging(call.op, call.params, result).log
    /\ outcome' = withLogging(call.op, call.params, result).outcome
    /\ UNCHANGED <<revision, pc, call, requests, answers, result, logging, late>>

Revisions == {"part_001", "legacy"}

\* before the call, whichever factory built the provider
Idle ==
    /\ revision \in Revisions
    /\ pc = "idle"
    /\ call = [op |-> "none", resource |-> Resource, params |-> <<>>]
    /\ requests = <<>>
    /\ answers = <<>>
    /\ result = Pending
    /\ log = <<>>
    /\ outcome = Pending
    /\ late = {}

\* the provider of createJsonApiDataProvider
Init == Idle /\ logging = FALSE

\* the provider of createJsonApiDataProviderWithLogging
InitLogging == Idle /\ logging = TRUE

Next ==
    \/ \E params \in GetListParams : getList(params)
    \/ \E params \in { [id |-> i] : i \in IdPool } : getOne(params)
    \/ \E params \in { [ids |-> ids] : ids \in IdLists } : getMany(params)
    \/ \E params \in GetManyReferenceParams : getManyReference(params)
    \/ \E params \in CreateParams : create(params)
    \/ \E params \in UpdateParams : update(params)
    \/ \E params \in UpdateManyParams : updateMany(params)
    \/ \E params \in DeleteParams : delete(params)
    \/ \E params \in { [ids |-> ids] : ids \in IdLists } : deleteMany(params)
    \/ \E i \in DOMAIN answers : \E reply \in RepliesTo(i) : Respond(i, reply)

Spec == Init /\ [][Next]_vars

NextLogging == Next \/ LogResult

SpecLogging == InitLogging /\ [][NextLogging]_vars

(***************************************************************************)
(* Properties.                                                             *)
(***************************************************************************)
ListReads == {"getList", "getMany", "getManyReference"}
Answered == pc = "done" /\ requests # <<>>
EmptyResultOf(op) == IF op = "getMany" THEN EmptyMany ELSE EmptyList

\* the request failed: transport failure, non-JSON body or non-success status
RequestFailed(reply) == reply.fetch = "rejects" \/ ~reply.parses \/ ~reply.ok

\* C1: the list-shaped reads getList, getMany and getManyReference never raise;
\* when the request failed they resolve to the empty result ({ data: [], total: 0 },
\* for getMany { data: [] }).
C1_ListReadsNeverRaise ==
    (call.op \in ListReads /\ Answered) =>
        /\ Returned(result)
        /\ RequestFailed(answers[1]) => result.value = EmptyResultOf(call.op)

SubRequestFailed(j) == answers[j] # NoReply /\ Threw(Client(answers[j]))
SubRequestSucceeded(j) == answers[j] # NoReply /\ ~Threw(Client(answers[j]))

\* C2: updateMany and deleteMany are all-or-nothing: as soon as one sub-request has
\* failed the call has raised, whatever the others did and in whatever order they
\* completed; the call returns only when all N succeeded, and then { data: ids }
\* with exactly the input id list in input order.
C2_AllOrNothing ==
    call.op \in FanOut =>
        /\ (\E j \in DOMAIN answers : SubRequestFailed(j)) => Threw(result)
        /\ (\A j \in DOMAIN answers : SubRequestSucceeded(j)) =>
              result = Return(Obj(Prop("data", Arr(call.params.ids))))
        /\ Returned(result) =>
              /\ \A j \in DOMAIN answers : SubRequestSucceeded(j)
              /\ result.value = Obj(Prop("data", Arr(call.params.ids)))

\* updateMany over three ids: the second failed, the first and third succeeded
C2_Witness ==
    /\ call.op = "updateMany"
    /\ Len(requests) = 3
    /\ SubRequestSucceeded(1) /\ SubRequestFailed(2) /\ SubRequestSucceeded(3)
    /\ Threw(result)

SingleReads == {"getOne", "create", "update"}

\* C3: getOne, create and update raise whenever the answered envelope's data is an
\* array or absent; they return only when data is a single resource, and then
\* { data: Record }.
C3_SingleResourceOrRaise ==
    (call.op \in SingleReads /\ Answered) =>
        LET data == OptGet(answers[1].body, "data")
        IN /\ (IsArr(data) \/ IsNullish(data)) => Threw(result)
           /\ Returned(result) =>
                 /\ ~RequestFailed(answers[1])
                 /\ IsObj(data)
                 /\ DOMAIN result.value.obj = {"data"}
                 /\ IsObj(result.value.obj.data)

\* getOne answered 200 with an array of one resource has raised
C3_Witness ==
    /\ call.op = "getOne"
    /\ Answered
    /\ answers[1] = Success(Obj([data |-> Arr(<<ResourceHong>>)]))
    /\ Threw(result)

\* C4: on a success envelope getList and getManyReference report meta.total whenever
\* it is present (also when it is 0), else meta.count whenever present, else the
\* number of items in data.
C4_TotalFromMeta ==
    (call.op \in {"getList", "getManyReference"} /\ Answered /\ ~RequestFailed(answers[1])
        /\ IsObj(answers[1].body) /\ IsArr(Get(answers[1].body, "data"))
        /\ ~Truthy(Get(answers[1].body, "errors"))
        /\ \A i \in DOMAIN Get(answers[1].body, "data").arr :
              ~Threw(validateJsonApiResource(Get(answers[1].body, "data").arr[i]))) =>
        LET body == answers[1].body
            meta == Get(body, "meta")
        IN /\ Returned(result)
           /\ Get(result.value, "total") =
                 IF IsObj(meta) /\ "total" \in DOMAIN meta.obj THEN meta.obj.total
                 ELSE IF IsObj(meta) /\ "count" \in DOMAIN meta.obj THEN meta.obj.count
                 ELSE Num(Len(Get(body, "data").arr))

PagedReads == {"getList", "getManyReference"}
Sent == pc # "idle" /\ requests # <<>>
ParamCount(query, name) == Cardinality({i \in DOMAIN query : query[i][1] = name})
PairCount(query, name, value) == Cardinality({i \in DOMAIN query : query[i] = <<name, value>>})
FilterName(key) == "filter[" \o key \o "]"
\* the extra filter mapping of the call, as a property map
FilterOf(params) == IF IsObj(params.filter) THEN params.filter.obj ELSE <<>>
Dropped(value) == value \in {Undefined, Null, Str("")}

\* C5: every getManyReference query carries filter[<target>] with the target id,
\* page[number], page[size] and sort, and one filter[<key>] per non-empty extra
\* filter entry, also when the extra filter has an entry under the target's key.
C5_ReferenceFilterEmitted ==
    (call.op = "getManyReference" /\ Sent) =>
        LET query == requests[1].query
            params == call.params
        IN /\ PairCount(query, FilterName(params.target), toString(params.id)) >= 1
           /\ ParamCount(query, "page[number]") >= 1
           /\ ParamCount(query, "page[size]") >= 1
           /\ ParamCount(query, "sort") >= 1
           /\ \A key \in DOMAIN FilterOf(params) :
                 (~Dropped(FilterOf(params)[key]) /\ toString(FilterOf(params)[key]) # "")
                     => ParamCount(query, FilterName(key)) >= 1

\* C6: a filter key whose value is undefined, null or "" never appears in the query;
\* every other key (also one whose value is 0, false or has an empty string form)
\* appears exactly once as filter[<key>]=<string form of the value>.
C6_FilterEncoding ==
    (call.op \in PagedReads /\ Sent) =>
        LET query == requests[1].query
            params == call.params
            isTarget(key) == call.op = "getManyReference" /\ key = params.target
        IN \A key \in DOMAIN FilterOf(params) :
              LET value == FilterOf(params)[key]
              IN IF Dropped(value)
                 THEN isTarget(key) \/ ParamCount(query, FilterName(key)) = 0
                 ELSE PairCount(query, FilterName(key), toString(value)) = 1

\* the number of '-' characters a sort value starts with
SortValues == {"id"} \cup SortFields
RECURSIVE LeadingDashes(_)
LeadingDashes(value) ==
    LET rest == {t \in SortValues \cup {"-" \o f : f \in SortValues} : value = "-" \o t}
    IN IF rest = {} THEN 0 ELSE 1 + LeadingDashes(CHOOSE t \in rest : TRUE)

SortFieldOf(params) == IF IsObj(params.sort) THEN Default(Get(params.sort, "field"), Str("id")) ELSE Str("id")
SortOrderOf(params) == IF IsObj(params.sort) THEN Default(Get(params.sort, "order"), Str("ASC")) ELSE Str("ASC")

\* C7: the emitted sort parameter is the bare field name when the order is ascending
\* and the field name prefixed with exactly one '-' when it is descending, never
\* with more than one; an absent sort gives the bare field id.
C7_SortEncoding ==
    (call.op \in PagedReads /\ Sent) =>
        LET query == requests[1].query
            field == SortFieldOf(call.params).str
            ascending == SortOrderOf(call.params) = Str("ASC")
        IN /\ ParamCount(query, "sort") = 1
           /\ \A i \in DOMAIN query : query[i][1] = "sort" =>
                 /\ query[i][2] = IF ascending THEN field ELSE "-" \o field
                 /\ LeadingDashes(query[i][2]) = IF ascending THEN 0 ELSE 1
                 /\ call.params.sort = Undefined => query[i][2] = "id"

\* getManyReference sorted by name, descending, with a filter: sort=-name is out
C7_Witness ==
    /\ call.op = "getManyReference"
    /\ Sent
    /\ call.params.sort = Obj([field |-> Str("name"), order |-> Str("DESC")])
    /\ IsObj(call.params.filter)
    /\ PairCount(requests[1].query, "sort", "-name") = 1

\* C8: with pagination (page >= 1, perPage >= 1) the query carries page[number]=page
\* and page[size]=perPage exactly once each, whatever the sort and the filter; with
\* no pagination page[number]=1 and page[size]=10.
C8_PaginationEncoding ==
    (call.op \in PagedReads /\ Sent) =>
        LET query == requests[1].query
            pagination == call.params.pagination
            page == IF IsObj(pagination) THEN pagination.obj.page.num ELSE 1
            perPage == IF IsObj(pagination) THEN pagination.obj.perPage.num ELSE 10
        IN /\ ParamCount(query, "page[number]") = 1
           /\ ParamCount(query, "page[size]") = 1
           /\ PairCount(query, "page[number]", NumToString(page)) = 1
           /\ PairCount(query, "page[size]", NumToString(perPage)) = 1

\* getList page 2 of size 1, sorted and filtered: page[number]=2 and page[size]=1 are out
C8_Witness ==
    /\ call.op = "getList"
    /\ Sent
    /\ call.params.pagination = Obj([page |-> Num(2), perPage |-> Num(1)])
    /\ IsObj(call.params.sort)
    /\ IsObj(call.params.filter) /\ DOMAIN call.params.filter.obj = {"status", "post_id"}
    /\ PairCount(requests[1].query, "page[number]", "2") = 1
    /\ PairCount(requests[1].query, "page[size]", "1") = 1

\* the write was answered by a backend that echoes the resource it was sent
Echoed == Answered /\ answers[1] = Echo(requests[1])
\* relationships / meta are absent or mappings
PassThroughOk(data) ==
    \A k \in {"relationships", "meta"} : k \in DOMAIN data.obj => IsObj(data.obj[k])

\* C9: round trip: a generic record whose only reserved keys are id, relationships
\* and meta, transformed to a wire resource as create / update do and transformed
\* back, is the original record, id value included.
C9_RoundTrip ==
    (call.op \in {"create", "update"} /\ Echoed
        /\ "id" \in DOMAIN call.params.data.obj /\ "type" \notin DOMAIN call.params.data.obj) =>
        result = Return(Obj(Prop("data", call.params.data)))

\* C9 as amended: a record sent with its own id, as update does, and with
\* relationships / meta absent or mappings, comes back equal to the original when
\* its id is a string, and with the id replaced by its decimal string when the id
\* is a number.
C9_RoundTripUpToIdString ==
    (call.op = "update" /\ Echoed /\ "id" \in DOMAIN call.params.data.obj
        /\ PassThroughOk(call.params.data)) =>
        LET data == call.params.data
        IN /\ IsStr(data.obj.id) => result = Return(Obj(Prop("data", data)))
           /\ IsNum(data.obj.id) =>
                 result = Return(Obj(Prop("data",
                            Obj(Merge(data.obj, Prop("id", Str(NumToString(data.obj.id.num)))))))) 

\* update of a record with a string id, relationships and meta, echoed back
C9_Witness ==
    /\ call.op = "update"
    /\ Echoed
    /\ call.params.data = Obj([id |-> Str("1"), name |-> Str("Hong"),
                               relationships |-> Obj([team |-> Str("t1")]),
                               meta |-> Obj([rev |-> Num(4)])])
    /\ result = Return(Obj(Prop("data", call.params.data)))

\* C10: every wire resource sent by create, update and updateMany has a string type,
\* a string id when it has one, and attributes without the keys id, type,
\* relationships and meta.
C10_WireResourceInvariant ==
    (call.op \in {"create", "update", "updateMany"} /\ Sent) =>
        \A i \in DOMAIN requests :
            LET resource == Get(requests[i].body, "data")
            IN /\ IsStr(Get(resource, "type"))
               /\ "id" \in DOMAIN resource.obj => IsStr(resource.obj.id)
               /\ IsObj(Get(resource, "attributes"))
               /\ DOMAIN resource.obj.attributes.obj
                     \cap {"id", "type", "relationships", "meta"} = {}

\* the record is the flattening of the resource: the resource's own id, every
\* attribute as a top-level field, relationships / meta exactly when carried
Flattens(record, resource) ==
    LET attributes == Get(resource, "attributes")
    IN /\ IsObj(record)
       /\ Get(record, "id") = Get(resource, "id")
       /\ IsObj(attributes) =>
             \A k \in DOMAIN attributes.obj \ {"id", "relationships", "meta"} :
                 k \in DOMAIN record.obj /\ record.obj[k] = attributes.obj[k]
       /\ \A k \in {"relationships", "meta"} :
             IF k \in DOMAIN resource.obj
             THEN k \in DOMAIN record.obj /\ record.obj[k] = resource.obj[k]
             ELSE k \notin DOMAIN record.obj

\* C11: the record returned for a received wire resource has the resource's own
\* top-level id, every attribute as a top-level field, and relationships / meta
\* exactly when the resource carried them, whatever keys attributes contains.
C11_FlattenedRecord ==
    (call.op \in SingleReads /\ Answered /\ Returned(result)) =>
        Flattens(Get(result.value, "data"), Get(answers[1].body, "data"))

\* the message the error normalization rule gives for a non-success reply
ErrorMessageOf(reply) ==
    LET body == reply.body
        errors == IF reply.parses /\ IsObj(body) /\ "errors" \in DOMAIN body.obj
                  THEN body.obj["errors"] ELSE Undefined
        first == IF IsArr(errors) /\ Len(errors.arr) > 0 THEN errors.arr[1] ELSE Undefined
    IN IF IsObj(first) /\ "detail" \in DOMAIN first.obj THEN first.obj["detail"].str
       ELSE IF IsObj(first) /\ "title" \in DOMAIN first.obj THEN first.obj["title"].str
       ELSE HttpStatusLine(reply)

\* C12: on a non-success HTTP status getOne, create, update and delete raise with
\* the first error entry's detail, else its title, else "HTTP <status>:
\* <statusText>"; a body without a recognizable error list gives the latter.
C12_ErrorNormalization ==
    (/\ call.op \in {"getOne", "create", "update", "delete"}
     /\ Answered
     /\ answers[1].fetch = "resolves"
     /\ ~answers[1].ok) =>
        result = Throw(ErrorMessageOf(answers[1]))

\* a document with none of data / errors / meta, or with both data and errors
InvalidDocument(body) ==
    /\ IsObj(body)
    /\ \/ ~Truthy(Get(body, "data")) /\ ~Truthy(Get(body, "errors")) /\ ~Truthy(Get(body, "meta"))
       \/ Truthy(Get(body, "data")) /\ Truthy(Get(body, "errors"))

\* the call returned records (one record, or a non-empty list of them)
ReturnsRecords ==
    /\ Returned(result)
    /\ LET data == Get(result.value, "data")
       IN IsObj(data) \/ (IsArr(data) /\ Len(data.arr) > 0)

\* C13: in the validating revision every operation that reads an envelope rejects
\* a success envelope with none of data / errors / meta, or with both data and
\* errors, before transforming: no operation returns records from such an envelope.
C13_InvalidDocumentRejected ==
    (/\ revision = "part_001"
     /\ call.op \in ListReads \cup SingleReads
     /\ Answered
     /\ answers[1].fetch = "resolves" /\ answers[1].parses /\ answers[1].ok
     /\ InvalidDocument(answers[1].body)) =>
        ~ReturnsRecords

\* C14: when the backend answers the DELETE request with a success status, delete
\* returns { data: previousData } when a prior record was supplied and
\* { data: { id } } otherwise; it raises only when the request itself failed.
C14_DeleteReturnsPreviousData ==
    (/\ call.op = "delete"
     /\ Answered
     /\ answers[1].fetch = "resolves" /\ answers[1].ok) =>
        result = Return(Obj([data |->
                    IF call.params.previousData = Undefined
                    THEN Obj([id |-> call.params.id])
                    ELSE call.params.previousData]))

\* the path of the sub-request for the i-th id of a fan-out call
SubRequestPath(i) == "/" \o Resource \o "/" \o toString(call.params.ids[i])

\* C15: every single-resource operation and every list-shaped read has issued
\* exactly one request per call; updateMany and deleteMany over N ids have
\* issued exactly N, one per id, none of them a second time, whether the
\* requests went well or failed.
C15_RequestCount ==
    pc # "idle" =>
        /\ Len(answers) = Len(requests)
        /\ call.op \notin FanOut => Len(requests) = 1
        /\ call.op \in FanOut =>
              /\ Len(requests) = Len(call.params.ids)
              /\ \A i \in DOMAIN requests :
                    /\ requests[i].path = SubRequestPath(i)
                    /\ requests[i].method = IF call.op = "updateMany" THEN "PATCH" ELSE "DELETE"
                    /\ \A j \in DOMAIN requests : requests[j].path = requests[i].path => j = i

\* a call over the most ids has been answered, a request of it with a failure
C15_Witness ==
    /\ call.op \in FanOut
    /\ pc = "done"
    /\ Len(call.params.ids) = MaxIds
    /\ Len(requests) = MaxIds
    /\ \E i \in DOMAIN answers : Threw(Client(answers[i]))

\* the requests an operation of the base provider issues for a call
IssuedAsBase ==
    /\ Len(requests) = IF call.op \in FanOut THEN Len(call.params.ids) ELSE 1
    /\ \A i \in DOMAIN requests :
          requests[i].method =
              CASE call.op \in ListReads \cup {"getOne"} -> "GET"
                [] call.op = "create" -> "POST"
                [] call.op \in {"update", "updateMany"} -> "PATCH"
                [] call.op \in {"delete", "deleteMany"} -> "DELETE"

InFlight == {i \in DOMAIN answers : answers[i] = NoReply}

\* C17: updateMany and deleteMany are neither transactional nor cancelling: all
\* N sub-requests are out before any outcome is known, nothing but these N is
\* ever sent (no cancellation, no compensating request), and whatever has been
\* answered so far, a failure reported to the caller included, the backend may
\* still answer and apply any sub-request in flight, in any order.
C17_NotTransactional ==
    (call.op \in FanOut /\ pc # "idle") =>
        /\ Len(requests) = Len(call.params.ids)
        /\ \A i \in DOMAIN requests :
              /\ requests[i].path = SubRequestPath(i)
              /\ requests[i].method = IF call.op = "updateMany" THEN "PATCH" ELSE "DELETE"
        /\ \A i \in InFlight : \A reply \in FanOutReplies : ENABLED Respond(i, reply)
        /\ late # {} => Threw(result)
        /\ late \subseteq {i \in DOMAIN answers : answers[i] # NoReply /\ ~Threw(Client(answers[i]))}

\* the call failed on its second sub-request and reported that; the backend
\* applied the first and the third afterwards
C17_Witness ==
    /\ call.op \in FanOut
    /\ Len(call.params.ids) = 3
    /\ Threw(result)
    /\ result = Client(answers[2])
    /\ late = {1, 3}

====
